---- MODULE Spec2Model ----
(***************************************************************************)
(* PrusaLink config flow (homeassistant/components/prusalink).             *)
(*                                                                         *)
(* Strings the code looks inside of (the host) are sequences of one-       *)
(* character strings; strings it only copies (user, password, API key,     *)
(* hostname, reported API version) are opaque TLA+ strings.  Python dicts   *)
(* are records / functions over string keys.                               *)
(***************************************************************************)
EXTENDS Integers, Sequences, FiniteSets, TLC

(* ---------------------------------------------------------------------- *)
(* const.py                                                                *)
(* ---------------------------------------------------------------------- *)
HOST == "host"
AUTH_TYPE == "authType"
USER == "user"
PASSWORD == "password"
API_KEY == "apiKey"

API_KEY_AUTH == "apiKeyAuth"
DIGEST_AUTH == "digestAuth"

API_KEY_AUTH_STEP == "api_key_auth"
DIGEST_AUTH_STEP == "digest_auth"
USER_STEP == "user"

(* Python's None, as a record so that it compares with any dict.           *)
None == [none |-> TRUE]

(* ---------------------------------------------------------------------- *)
(* Bounds and input sets                                                   *)
(* ---------------------------------------------------------------------- *)
MaxBodyLen == 2
MaxCalls == 2

Flows == {"flow1", "flow2"}

HTTP == <<"h", "t", "t", "p", ":", "/", "/">>
HTTPS == <<"h", "t", "t", "p", "s", ":", "/", "/">>
MYPRINTER == <<"m", "y", "p", "r", "i", "n", "t", "e", "r">>

RECURSIVE SeqsUpTo(_, _)
SeqsUpTo(S, n) ==
    IF n = 0 THEN {<<>>}
    ELSE LET shorter == SeqsUpTo(S, n - 1)
         IN  shorter \cup {Append(s, c) : s \in shorter, c \in S}

(* Raw hosts for the host-formatting specification: a prefix (none, a      *)
(* scheme, a near-scheme) followed by a short body of letters and slashes. *)
Prefixes ==
    { <<>>, HTTP, HTTPS,
      <<"h", "t", "t", "p", ":">>,
      <<"h", "t", "t", "p", ":", "/">>,
      <<"h", "t", "t", "p", "s", ":", "/">>,
      <<"f", "t", "p", ":", "/", "/">>,
      <<"/">> }
Bodies == SeqsUpTo({"a", "/"}, MaxBodyLen)
RawHosts == {p \o b : p \in Prefixes, b \in Bodies}

(* Raw hosts a user submits in the wizard specification.                   *)
UserHosts == { MYPRINTER, MYPRINTER \o <<"/">>, HTTPS \o <<"a">>, <<>> }
Users == {"maker"}
Passwords == {"pw1", "pw2"}
ApiKeys == {"abc", "xyz"}

DigestInputs == [host : UserHosts, user : Users, password : Passwords]
ApiKeyInputs == [host : UserHosts, apiKey : ApiKeys]

(* What the device can report, and what get_version can raise.             *)
ApiVersions == {"1.2.0", "2.0.0", "2.1.0", "not a version"}
Hostnames == {"PrusaMINI", "PrusaMK4"}
VersionInfos == [api : ApiVersions, hostname : Hostnames]
DeviceExceptions ==
    {"TimeoutError", "ClientError", "ClientConnectionError", "InvalidAuth", "ValueError"}

VARIABLES
    cur_step,   \* per flow: the step whose form awaits input ("init" before async_init); flow manager
    pc,         \* per flow: "idle", or "get_version" while validate_input awaits the device (line 96)
    frame,      \* per flow: the locals of the suspended credential handler (lines 148-155, 189-195), or None
    result,     \* per flow: the FlowResult the latest handler call returned, None while it runs
    api,        \* per flow: the PrusaLink client of the latest submit (line 92), its get_version outcome
                \*           and how many get_version calls that submit has made
    raw,        \* host formatting: the raw input of get_host (line 216)
    host,       \* host formatting: the current value (lines 218-223)
    calls       \* host formatting: how often get_host was applied

vars == <<cur_step, pc, frame, result, api, raw, host, calls>>
flowVars == <<cur_step, pc, frame, result, api>>
hostVars == <<raw, host, calls>>

(* ---------------------------------------------------------------------- *)
(* str.rstrip / str.startswith, as get_host uses them                      *)
(* ---------------------------------------------------------------------- *)
RECURSIVE rstrip(_, _)
rstrip(s, c) ==
    IF s = <<>> THEN s
    ELSE IF s[Len(s)] = c THEN rstrip(SubSeq(s, 1, Len(s) - 1), c)
    ELSE s

startswith(s, prefix) ==
    /\ Len(s) >= Len(prefix)
    /\ SubSeq(s, 1, Len(prefix)) = prefix

endswith(s, c) == s # <<>> /\ s[Len(s)] = c

(* Variant of get_host: the scheme looked for in the raw input, before the *)
(* trailing slashes are stripped.                                          *)
get_host_scheme_of_raw(r) ==
    LET stripped == rstrip(r, "/")
    IN  IF ~(startswith(r, HTTP) \/ startswith(r, HTTPS))
        THEN HTTP \o stripped
        ELSE stripped

(* ConfigFlow.get_host                                                     *)
get_host(r) ==
    LET stripped == rstrip(r, "/")
    IN  IF ~(startswith(stripped, HTTP) \/ startswith(stripped, HTTPS))
        THEN HTTP \o stripped
        ELSE stripped

(* ---------------------------------------------------------------------- *)
(* Schemas (the fields each form asks for) and flow results                *)
(* ---------------------------------------------------------------------- *)
DIGEST_AUTH_SCHEMA == {AUTH_TYPE, HOST, USER, PASSWORD}
API_KEY_AUTH_SCHEMA == {AUTH_TYPE, HOST, API_KEY}
USER_STEP_SCHEMA == {AUTH_TYPE}

async_show_form(step_id, data_schema, errors) ==
    [type |-> "form", step_id |-> step_id, data_schema |-> data_schema, errors |-> errors]

async_create_entry(title, data) ==
    [type |-> "create_entry", title |-> title, data |-> data]

(* An exception that leaves the handler (no handler of this flow lets one  *)
(* out; the shape exists so that a handler that did would be visible).     *)
propagate(exc) == [type |-> "exception", exc |-> exc]

(* data | {...}: dict union, the right operand winning                     *)
DictMerge(a, b) ==
    [k \in (DOMAIN a) \cup (DOMAIN b) |-> IF k \in DOMAIN b THEN b[k] ELSE a[k]]

(* ---------------------------------------------------------------------- *)
(* Exceptions: the classes involved and their base classes                 *)
(* ---------------------------------------------------------------------- *)
Bases(exc) ==
    CASE exc = "TimeoutError" -> {"TimeoutError", "Exception"}
      [] exc = "ClientError" -> {"ClientError", "Exception"}
      [] exc = "ClientConnectionError" -> {"ClientConnectionError", "ClientError", "Exception"}
      [] exc = "InvalidAuth" -> {"InvalidAuth", "Exception"}
      [] exc = "ValueError" -> {"ValueError", "Exception"}
      [] exc = "CannotConnect" -> {"CannotConnect", "HomeAssistantError", "Exception"}
      [] exc = "NotSupported" -> {"NotSupported", "HomeAssistantError", "Exception"}
      [] OTHER -> {exc, "Exception"}

IsInstance(exc, cls) == cls \in Bases(exc)

Raise(exc) == [kind |-> "raise", exc |-> exc]
Return(value) == [kind |-> "return", value |-> value]

(* ---------------------------------------------------------------------- *)
(* validate_input                                                          *)
(* ---------------------------------------------------------------------- *)
(* Variants of build_link_config, each with one slip.                      *)
(* The second test compares with the variant's tag instead of the          *)
(* API_KEY_AUTH constant, so no branch is taken for an API key.            *)
build_link_config_tag_for_constant(data) ==
    LET c0 == None
        c1 == IF data[AUTH_TYPE] = DIGEST_AUTH
              THEN [host |-> data[HOST],
                    auth |-> [type |-> "UserAuth",
                              user |-> data[USER],
                              password |-> data[PASSWORD]]]
              ELSE c0
        c2 == IF data[AUTH_TYPE] = "ApiKeyAuth"
              THEN [host |-> data[HOST],
                    auth |-> [type |-> "ApiKeyAuth", apiKey |-> data[API_KEY]]]
              ELSE c1
    IN  c2

(* User and password swapped in the digest variant.                        *)
build_link_config_swapped_credentials(data) ==
    LET c0 == None
        c1 == IF data[AUTH_TYPE] = DIGEST_AUTH
              THEN [host |-> data[HOST],
                    auth |-> [type |-> "UserAuth",
                              user |-> data[PASSWORD],
                              password |-> data[USER]]]
              ELSE c0
        c2 == IF data[AUTH_TYPE] = API_KEY_AUTH
              THEN [host |-> data[HOST],
                    auth |-> [type |-> "ApiKeyAuth", apiKey |-> data[API_KEY]]]
              ELSE c1
    IN  c2

(* Lines 74-90: the LinkConfiguration handed to PrusaLink.                 *)
build_link_config(data) ==
    LET c0 == None
        c1 == IF data[AUTH_TYPE] = DIGEST_AUTH
              THEN [host |-> data[HOST],
                    auth |-> [type |-> "UserAuth",
                              user |-> data[USER],
                              password |-> data[PASSWORD]]]
              ELSE c0
        c2 == IF data[AUTH_TYPE] = API_KEY_AUTH
              THEN [host |-> data[HOST],
                    auth |-> [type |-> "ApiKeyAuth", apiKey |-> data[API_KEY]]]
              ELSE c1
    IN  c2

(* Variants of validate_input_resume, each with one slip.                  *)
(* The title taken from the wrong key of the version record.               *)
validate_input_resume_title_from_api(outcome) ==
    IF outcome.kind = "raise"
    THEN IF IsInstance(outcome.exc, "TimeoutError") \/ IsInstance(outcome.exc, "ClientError")
         THEN Raise("CannotConnect")
         ELSE Raise(outcome.exc)
    ELSE Return([title |-> outcome.value.api])

(* ClientError left out of the except clause.                              *)
validate_input_resume_timeout_only(outcome) ==
    IF outcome.kind = "raise"
    THEN IF IsInstance(outcome.exc, "TimeoutError")
         THEN Raise("CannotConnect")
         ELSE Raise(outcome.exc)
    ELSE Return([title |-> outcome.value.hostname])

(* Lines 94-108: what validate_input does with the outcome of              *)
(* api.get_version() under the timeout.  The version check of lines        *)
(* 102-106 is commented out in the source, so nothing reads version["api"].*)
validate_input_resume(outcome) ==
    IF outcome.kind = "raise"
    THEN IF IsInstance(outcome.exc, "TimeoutError") \/ IsInstance(outcome.exc, "ClientError")
         THEN Raise("CannotConnect")
         ELSE Raise(outcome.exc)
    ELSE Return([title |-> outcome.value.hostname])

(* ---------------------------------------------------------------------- *)
(* ConfigFlow steps                                                        *)
(* ---------------------------------------------------------------------- *)
(* async_step_digest_auth, lines 148-154: the handler's locals.            *)
digest_auth_data(user_input) ==
    [host |-> get_host(user_input[HOST]),
     user |-> user_input[USER],
     password |-> user_input[PASSWORD]]

(* Variants of digest_auth_finish, each with one slip.                     *)
(* The entry created in a finally clause instead of the else clause.       *)
digest_auth_finish_entry_in_finally(data, vres) ==
    async_create_entry(IF vres.kind = "return" THEN vres.value.title ELSE "", data)

(* No broad except clause: an unexpected exception leaves the handler.     *)
digest_auth_finish_no_broad_except(data, vres) ==
    IF vres.kind = "return"
    THEN async_create_entry(vres.value.title, data)
    ELSE LET errors ==
                 IF IsInstance(vres.exc, "CannotConnect") THEN [base |-> "cannot_connect"]
                 ELSE IF IsInstance(vres.exc, "NotSupported") THEN [base |-> "not_supported"]
                 ELSE IF IsInstance(vres.exc, "InvalidAuth") THEN [base |-> "invalid_auth"]
                 ELSE None
         IN  IF errors = None THEN propagate(vres.exc)
             ELSE async_show_form(USER_STEP, USER_STEP_SCHEMA, errors)

(* On failure the credential form is shown again instead of the choice.    *)
digest_auth_finish_same_form(data, vres) ==
    IF vres.kind = "return"
    THEN async_create_entry(vres.value.title, data)
    ELSE LET errors ==
                 IF IsInstance(vres.exc, "CannotConnect") THEN [base |-> "cannot_connect"]
                 ELSE IF IsInstance(vres.exc, "NotSupported") THEN [base |-> "not_supported"]
                 ELSE IF IsInstance(vres.exc, "InvalidAuth") THEN [base |-> "invalid_auth"]
                 ELSE IF IsInstance(vres.exc, "Exception") THEN [base |-> "unknown"]
                 ELSE None
         IN  IF errors = None THEN propagate(vres.exc)
             ELSE async_show_form(DIGEST_AUTH_STEP, DIGEST_AUTH_SCHEMA, errors)

(* async_step_digest_auth, lines 158-174: try / except / else and the form.*)
digest_auth_finish(data, vres) ==
    IF vres.kind = "return"
    THEN async_create_entry(vres.value.title, data)
    ELSE LET errors ==
                 IF IsInstance(vres.exc, "CannotConnect") THEN [base |-> "cannot_connect"]
                 ELSE IF IsInstance(vres.exc, "NotSupported") THEN [base |-> "not_supported"]
                 ELSE IF IsInstance(vres.exc, "InvalidAuth") THEN [base |-> "invalid_auth"]
                 ELSE IF IsInstance(vres.exc, "Exception") THEN [base |-> "unknown"]
                 ELSE None
         IN  IF errors = None THEN propagate(vres.exc)
             ELSE async_show_form(USER_STEP, USER_STEP_SCHEMA, errors)

(* async_step_api_key_auth, lines 189-194.                                 *)
api_key_auth_data(user_input) ==
    [host |-> get_host(user_input[HOST]),
     apiKey |-> user_input[API_KEY]]

(* Variant of api_key_auth_finish: the broad except clause placed before   *)
(* the InvalidAuth clause, so that it shadows it.                          *)
api_key_auth_finish_broad_first(data, vres) ==
    IF vres.kind = "return"
    THEN async_create_entry(vres.value.title, data)
    ELSE LET errors ==
                 IF IsInstance(vres.exc, "CannotConnect") THEN [base |-> "cannot_connect"]
                 ELSE IF IsInstance(vres.exc, "NotSupported") THEN [base |-> "not_supported"]
                 ELSE IF IsInstance(vres.exc, "Exception") THEN [base |-> "unknown"]
                 ELSE IF IsInstance(vres.exc, "InvalidAuth") THEN [base |-> "invalid_auth"]
                 ELSE None
         IN  IF errors = None THEN propagate(vres.exc)
             ELSE async_show_form(USER_STEP, USER_STEP_SCHEMA, errors)

(* async_step_api_key_auth, lines 198-214.                                 *)
api_key_auth_finish(data, vres) ==
    IF vres.kind = "return"
    THEN async_create_entry(vres.value.title, data)
    ELSE LET errors ==
                 IF IsInstance(vres.exc, "CannotConnect") THEN [base |-> "cannot_connect"]
                 ELSE IF IsInstance(vres.exc, "NotSupported") THEN [base |-> "not_supported"]
                 ELSE IF IsInstance(vres.exc, "InvalidAuth") THEN [base |-> "invalid_auth"]
                 ELSE IF IsInstance(vres.exc, "Exception") THEN [base |-> "unknown"]
                 ELSE None
         IN  IF errors = None THEN propagate(vres.exc)
             ELSE async_show_form(USER_STEP, USER_STEP_SCHEMA, errors)

(* The two credential steps called without input: lines 141-144, 182-185.  *)
async_step_digest_auth_form == async_show_form(DIGEST_AUTH_STEP, DIGEST_AUTH_SCHEMA, None)
async_step_api_key_auth_form == async_show_form(API_KEY_AUTH_STEP, API_KEY_AUTH_SCHEMA, None)

(* Variant of async_step_user: the two credential steps exchanged.         *)
async_step_user_steps_exchanged(user_input) ==
    IF user_input = None
    THEN async_show_form(USER_STEP, USER_STEP_SCHEMA, None)
    ELSE IF user_input[AUTH_TYPE] = DIGEST_AUTH
         THEN async_step_api_key_auth_form
         ELSE async_step_digest_auth_form

(* async_step_user, lines 116-133.                                         *)
async_step_user(user_input) ==
    IF user_input = None
    THEN async_show_form(USER_STEP, USER_STEP_SCHEMA, None)
    ELSE IF user_input[AUTH_TYPE] = DIGEST_AUTH
         THEN async_step_digest_auth_form
         ELSE async_step_api_key_auth_form

(* Variant of next_cur_step: a created entry does not end the flow, which  *)
(* goes back to the auth choice.                                           *)
next_cur_step_entry_keeps_flow(res) ==
    IF res.type = "form" THEN res.step_id
    ELSE IF res.type = "create_entry" THEN USER_STEP
    ELSE "aborted"

(* The flow manager: the step that handles the next input is the step of   *)
(* the form last shown; a created entry ends the flow.                     *)
next_cur_step(res) ==
    IF res.type = "form" THEN res.step_id
    ELSE IF res.type = "create_entry" THEN "done"
    ELSE "aborted"

(* ---------------------------------------------------------------------- *)
(* The wizard as a state machine                                           *)
(* ---------------------------------------------------------------------- *)
FlowInit ==
    /\ cur_step = [f \in Flows |-> "init"]
    /\ pc = [f \in Flows |-> "idle"]
    /\ frame = [f \in Flows |-> None]
    /\ result = [f \in Flows |-> None]
    /\ api = [f \in Flows |-> None]

Init ==
    /\ FlowInit
    /\ raw = <<>>
    /\ host = <<>>
    /\ calls = 0

(* start(): flow.async_init -> async_step_user(None).                      *)
Start(f) ==
    /\ cur_step[f] = "init"
    /\ pc[f] = "idle"
    /\ LET res == async_step_user(None)
       IN  /\ result' = [result EXCEPT ![f] = res]
           /\ cur_step' = [cur_step EXCEPT ![f] = next_cur_step(res)]
    /\ api' = [api EXCEPT ![f] = None]
    /\ UNCHANGED <<pc, frame, hostVars>>

(* chooseAuthType(choice): flow.async_configure on the "user" form ->      *)
(* async_step_user(user_input).                                            *)
ChooseAuthType(f, choice) ==
    /\ cur_step[f] = USER_STEP
    /\ pc[f] = "idle"
    /\ LET res == async_step_user([authType |-> choice])
       IN  /\ result' = [result EXCEPT ![f] = res]
           /\ cur_step' = [cur_step EXCEPT ![f] = next_cur_step(res)]
    /\ api' = [api EXCEPT ![f] = None]
    /\ UNCHANGED <<pc, frame, hostVars>>

(* submitCredentials through the digest step, up to the await of           *)
(* api.get_version() inside validate_input (lines 148-159, 73-96).         *)
SubmitDigest(f, user_input) ==
    /\ cur_step[f] = DIGEST_AUTH_STEP
    /\ pc[f] = "idle"
    /\ LET data == digest_auth_data(user_input)
           link_config == build_link_config(DictMerge(data, [authType |-> DIGEST_AUTH]))
       IN  /\ frame' = [frame EXCEPT ![f] =
                           [step |-> DIGEST_AUTH_STEP, user_input |-> user_input, data |-> data]]
           /\ api' = [api EXCEPT ![f] =
                           [link_config |-> link_config, get_version |-> [kind |-> "pending"],
                            n_calls |-> 1]]
    /\ pc' = [pc EXCEPT ![f] = "get_version"]
    /\ result' = [result EXCEPT ![f] = None]
    /\ UNCHANGED <<cur_step, hostVars>>

(* submitCredentials through the API-key step (lines 189-199, 73-96).      *)
SubmitApiKey(f, user_input) ==
    /\ cur_step[f] = API_KEY_AUTH_STEP
    /\ pc[f] = "idle"
    /\ LET data == api_key_auth_data(user_input)
           link_config == build_link_config(DictMerge(data, [authType |-> API_KEY_AUTH]))
       IN  /\ frame' = [frame EXCEPT ![f] =
                           [step |-> API_KEY_AUTH_STEP, user_input |-> user_input, data |-> data]]
           /\ api' = [api EXCEPT ![f] =
                           [link_config |-> link_config, get_version |-> [kind |-> "pending"],
                            n_calls |-> 1]]
    /\ pc' = [pc EXCEPT ![f] = "get_version"]
    /\ result' = [result EXCEPT ![f] = None]
    /\ UNCHANGED <<cur_step, hostVars>>

(* Variant of Resume: after a timeout the call is made once more before    *)
(* the handler gives up.                                                   *)
Resume_retry_after_timeout(f, outcome) ==
    IF outcome = Raise("TimeoutError") /\ api[f].n_calls < 2
    THEN /\ api' = [api EXCEPT ![f].n_calls = @ + 1]
         /\ UNCHANGED <<cur_step, pc, frame, result, hostVars>>
    ELSE LET vres == validate_input_resume(outcome)
             res == IF frame[f].step = DIGEST_AUTH_STEP
                    THEN digest_auth_finish(frame[f].data, vres)
                    ELSE api_key_auth_finish(frame[f].data, vres)
         IN  /\ result' = [result EXCEPT ![f] = res]
             /\ cur_step' = [cur_step EXCEPT ![f] = next_cur_step(res)]
             /\ api' = [api EXCEPT ![f].get_version = outcome]
             /\ frame' = [frame EXCEPT ![f] = None]
             /\ pc' = [pc EXCEPT ![f] = "idle"]
             /\ UNCHANGED hostVars

(* Variant of Resume: the handler's data kept in an attribute shared by    *)
(* all flows, so a flow finishes with the data of whichever submit came    *)
(* last.                                                                   *)
Resume_shared_data(f, outcome) ==
    LET vres == validate_input_resume(outcome)
        others == {g \in Flows \ {f} : frame[g] # None}
        data == IF others # {} THEN frame[CHOOSE g \in others : TRUE].data
                ELSE frame[f].data
        res == IF frame[f].step = DIGEST_AUTH_STEP
               THEN digest_auth_finish(data, vres)
               ELSE api_key_auth_finish(data, vres)
    IN  /\ result' = [result EXCEPT ![f] = res]
        /\ cur_step' = [cur_step EXCEPT ![f] = next_cur_step(res)]
        /\ api' = [api EXCEPT ![f].get_version = outcome]
        /\ frame' = [frame EXCEPT ![f] = None]
        /\ pc' = [pc EXCEPT ![f] = "idle"]
        /\ UNCHANGED hostVars

(* The rest of the suspended handler once the awaited call has an outcome: *)
(* validate_input lines 98-108, then the handler's except / else chain.    *)
Resume(f, outcome) ==
    LET vres == validate_input_resume(outcome)
        res == IF frame[f].step = DIGEST_AUTH_STEP
               THEN digest_auth_finish(frame[f].data, vres)
               ELSE api_key_auth_finish(frame[f].data, vres)
    IN  /\ result' = [result EXCEPT ![f] = res]
        /\ cur_step' = [cur_step EXCEPT ![f] = next_cur_step(res)]
        /\ api' = [api EXCEPT ![f].get_version = outcome]
        /\ frame' = [frame EXCEPT ![f] = None]
        /\ pc' = [pc EXCEPT ![f] = "idle"]
        /\ UNCHANGED hostVars

(* The device answers get_version.                                         *)
GetVersionReturns(f, version) ==
    /\ pc[f] = "get_version"
    /\ Resume(f, Return(version))

(* get_version raises.                                                     *)
GetVersionRaises(f, exc) ==
    /\ pc[f] = "get_version"
    /\ Resume(f, Raise(exc))

(* Variant of TimeoutExpires: the call is awaited without a timeout        *)
(* context, so no timer ever ends it.                                      *)
TimeoutExpires_no_timer(f) ==
    /\ pc[f] = "get_version"
    /\ FALSE
    /\ UNCHANGED vars

(* async_timeout.timeout(5) expires first: asyncio.TimeoutError.           *)
TimeoutExpires(f) ==
    /\ pc[f] = "get_version"
    /\ Resume(f, Raise("TimeoutError"))

Next ==
    \E f \in Flows :
        \/ Start(f)
        \/ \E choice \in {DIGEST_AUTH, API_KEY_AUTH} : ChooseAuthType(f, choice)
        \/ \E user_input \in DigestInputs : SubmitDigest(f, user_input)
        \/ \E user_input \in ApiKeyInputs : SubmitApiKey(f, user_input)
        \/ \E version \in VersionInfos : GetVersionReturns(f, version)
        \/ \E exc \in DeviceExceptions : GetVersionRaises(f, exc)
        \/ TimeoutExpires(f)

Spec == Init /\ [][Next]_vars

(* The wizard with the scheduling the event loop guarantees: the timer of  *)
(* async_timeout.timeout(5) fires if the awaited call is still pending.    *)
(* Nothing is assumed about the device.                                    *)
SpecLive == Spec /\ \A f \in Flows : WF_vars(TimeoutExpires(f))

(* ---------------------------------------------------------------------- *)
(* The wizard after a failed submit: every flow starts in the state a      *)
(* failed credential submit leaves it in (any step, any input, any         *)
(* exception of the call), and goes on from there, to further failures or  *)
(* to success.                                                             *)
(* ---------------------------------------------------------------------- *)
FailureCases ==
    [step : {DIGEST_AUTH_STEP}, user_input : DigestInputs, exc : DeviceExceptions]
        \cup [step : {API_KEY_AUTH_STEP}, user_input : ApiKeyInputs, exc : DeviceExceptions]

(* The handler's data, the client and the result of the failed submit c.   *)
FailedData(c) ==
    IF c.step = DIGEST_AUTH_STEP
    THEN digest_auth_data(c.user_input)
    ELSE api_key_auth_data(c.user_input)

FailedApi(c) ==
    [link_config |->
         build_link_config(DictMerge(FailedData(c),
             [authType |-> IF c.step = DIGEST_AUTH_STEP THEN DIGEST_AUTH ELSE API_KEY_AUTH])),
     get_version |-> Raise(c.exc),
     n_calls |-> 1]

FailedResult(c) ==
    IF c.step = DIGEST_AUTH_STEP
    THEN digest_auth_finish(FailedData(c), validate_input_resume(Raise(c.exc)))
    ELSE api_key_auth_finish(FailedData(c), validate_input_resume(Raise(c.exc)))

InitRetry ==
    \E c \in [Flows -> FailureCases] :
        /\ cur_step = [f \in Flows |-> next_cur_step(FailedResult(c[f]))]
        /\ pc = [f \in Flows |-> "idle"]
        /\ frame = [f \in Flows |-> None]
        /\ result = [f \in Flows |-> FailedResult(c[f])]
        /\ api = [f \in Flows |-> FailedApi(c[f])]
        /\ raw = <<>>
        /\ host = <<>>
        /\ calls = 0

NextRetry ==
    \E f \in Flows :
        \/ \E choice \in {DIGEST_AUTH, API_KEY_AUTH} : ChooseAuthType(f, choice)
        \/ \E user_input \in DigestInputs : SubmitDigest(f, user_input)
        \/ \E user_input \in ApiKeyInputs : SubmitApiKey(f, user_input)
        \/ \E version \in VersionInfos : GetVersionReturns(f, version)
        \/ \E exc \in DeviceExceptions : GetVersionRaises(f, exc)
        \/ TimeoutExpires(f)

SpecRetry == InitRetry /\ [][NextRetry]_vars

(* ---------------------------------------------------------------------- *)
(* Host formatting on its own: get_host applied to a raw input, and again  *)
(* to its own result.                                                      *)
(* ---------------------------------------------------------------------- *)
InitHost ==
    /\ FlowInit
    /\ raw \in RawHosts
    /\ host = raw
    /\ calls = 0

ApplyGetHost ==
    /\ calls < MaxCalls
    /\ host' = get_host(host)
    /\ calls' = calls + 1
    /\ UNCHANGED <<raw, flowVars>>

NextHost == ApplyGetHost

SpecHost == InitHost /\ [][NextHost]_vars

(* ---------------------------------------------------------------------- *)
(* Vocabulary of the properties                                            *)
(* ---------------------------------------------------------------------- *)
IsEntry(r) == r # None /\ r.type = "create_entry"
IsForm(r) == r # None /\ r.type = "form"

(* Flow f has finished a submitCredentials call and result[f] is what it   *)
(* returned; api[f].get_version is the outcome of its validation call.     *)
Submitted(f) == api[f] # None /\ result[f] # None
Outcome(f) == api[f].get_version

ErrorForm(r, tag) == IsForm(r) /\ r.errors = [base |-> tag]
ErrorTags == {"cannot_connect", "not_supported", "invalid_auth", "unknown"}

(* The version policy of the disabled check (lines 102-106): a reported    *)
(* API version is a dotted triple of numbers, compared part by part with   *)
(* the minimum "2.0.0"; anything else does not parse.                      *)
AwesomeVersion(v) ==
    CASE v = "1.2.0" -> <<1, 2, 0>>
      [] v = "2.0.0" -> <<2, 0, 0>>
      [] v = "2.1.0" -> <<2, 1, 0>>
      [] OTHER -> <<>>

VersionParses(v) == AwesomeVersion(v) # <<>>

VersionLess(a, b) ==
    \E i \in 1..3 : a[i] < b[i] /\ \A j \in 1..(i - 1) : a[j] = b[j]

VersionBelowMinimum(v) ==
    VersionParses(v) /\ VersionLess(AwesomeVersion(v), AwesomeVersion("2.0.0"))

VersionSupported(v) == VersionParses(v) /\ ~VersionBelowMinimum(v)

(* ---------------------------------------------------------------------- *)
(* Properties                                                              *)
(* ---------------------------------------------------------------------- *)

(* C1: a config entry is created only after a successful validation.  Any  *)
(* step in which a flow's result becomes an entry creation is the          *)
(* completion of a credential submit of that flow (the handler was         *)
(* awaiting get_version on the client built by that submit) and the        *)
(* get_version call returned without error; start(), chooseAuthType and a  *)
(* submit whose validation raised never produce an entry.                  *)
C1_EntryOnlyAfterValidation ==
    [][\A f \in Flows :
          (IsEntry(result'[f]) /\ ~IsEntry(result[f])) =>
              /\ pc[f] = "get_version"
              /\ frame[f].step \in {DIGEST_AUTH_STEP, API_KEY_AUTH_STEP}
              /\ api'[f].link_config = api[f].link_config
              /\ api'[f].get_version.kind = "return"]_vars

(* C1 witness: a submit whose validation returned has produced an entry.   *)
C1_Witness ==
    \E f \in Flows :
        Submitted(f) /\ IsEntry(result[f]) /\ Outcome(f).kind = "return"

(* C2: when the device answers but reports an API version below 2.0.0      *)
(* (such as "1.2.0"), the submit creates no entry and returns a form whose *)
(* errors are exactly {base: not_supported}.                               *)
C2_LowVersionNotSupported ==
    \A f \in Flows :
        (Submitted(f) /\ Outcome(f).kind = "return"
            /\ VersionBelowMinimum(Outcome(f).value.api)) =>
                ~IsEntry(result[f]) /\ ErrorForm(result[f], "not_supported")

(* C3: when the device answers but reports an API version that does not    *)
(* parse (such as "not a version"), the submit creates no entry and        *)
(* returns a form whose errors are exactly {base: not_supported}.          *)
C3_UnparseableVersionNotSupported ==
    \A f \in Flows :
        (Submitted(f) /\ Outcome(f).kind = "return"
            /\ ~VersionParses(Outcome(f).value.api)) =>
                ~IsEntry(result[f]) /\ ErrorForm(result[f], "not_supported")

IsStripOf(s, r) ==
    /\ ~endswith(s, "/")
    /\ Len(s) <= Len(r)
    /\ SubSeq(r, 1, Len(s)) = s
    /\ \A i \in (Len(s) + 1)..Len(r) : r[i] = "/"

HasScheme(s) == startswith(s, HTTP) \/ startswith(s, HTTPS)

C5_EntryDataIsLinkConfiguration ==
    \A f \in Flows :
        (Submitted(f) /\ IsEntry(result[f])) =>
            /\ result[f].data = api[f].link_config
            /\ result[f].title = Outcome(f).value.hostname

(* C6: if the validation call returns and the reported API version is      *)
(* "2.0.0" or above, the submit (through either credential step) returns   *)
(* an entry creation titled with the reported hostname, not an error form. *)
C6_SupportedVersionCreatesEntry ==
    \A f \in Flows :
        (Submitted(f) /\ Outcome(f).kind = "return"
            /\ VersionSupported(Outcome(f).value.api)) =>
                /\ IsEntry(result[f])
                /\ result[f].title = Outcome(f).value.hostname

(* C6 witness: two flows, one through each credential step, have each      *)
(* created an entry from a device reporting a supported version.           *)
C6_Witness ==
    \E f, g \in Flows :
        /\ Submitted(f) /\ Submitted(g)
        /\ api[f].link_config.auth.type = "UserAuth"
        /\ api[g].link_config.auth.type = "ApiKeyAuth"
        /\ \A h \in {f, g} :
              /\ Outcome(h).kind = "return"
              /\ VersionSupported(Outcome(h).value.api)
              /\ IsEntry(result[h])

(* C7: if the validation call times out or fails with a transport error,   *)
(* the submit creates no entry and returns the auth-choice form (step      *)
(* "user") with errors exactly {base: cannot_connect}; the flow awaits the *)
(* auth choice again.                                                      *)
C7_TimeoutOrTransportCannotConnect ==
    \A f \in Flows :
        (Submitted(f) /\ Outcome(f).kind = "raise"
            /\ (IsInstance(Outcome(f).exc, "TimeoutError")
                \/ IsInstance(Outcome(f).exc, "ClientError"))) =>
                /\ result[f] = async_show_form(USER_STEP, USER_STEP_SCHEMA,
                                               [base |-> "cannot_connect"])
                /\ cur_step[f] = USER_STEP
                /\ pc[f] = "idle"

(* C7 witness: one flow back at the choice after a timeout, the other      *)
(* after a transport error.                                                *)
C7_Witness ==
    \E f, g \in Flows :
        /\ Submitted(f) /\ Submitted(g)
        /\ Outcome(f) = Raise("TimeoutError")
        /\ Outcome(g) = Raise("ClientConnectionError")
        /\ ErrorForm(result[f], "cannot_connect")
        /\ ErrorForm(result[g], "cannot_connect")

(* C8: if the device rejects the credentials (InvalidAuth), the submit     *)
(* creates no entry and returns a form with errors exactly                 *)
(* {base: invalid_auth}, never cannot_connect or unknown.                  *)
C8_InvalidAuthTag ==
    \A f \in Flows :
        (Submitted(f) /\ Outcome(f).kind = "raise"
            /\ IsInstance(Outcome(f).exc, "InvalidAuth")) =>
                /\ ~IsEntry(result[f])
                /\ ErrorForm(result[f], "invalid_auth")

(* C8 witness: a rejected API key has produced the invalid_auth form.      *)
C8_Witness ==
    \E f \in Flows :
        /\ Submitted(f)
        /\ api[f].link_config.auth.type = "ApiKeyAuth"
        /\ Outcome(f) = Raise("InvalidAuth")
        /\ ErrorForm(result[f], "invalid_auth")

(* C9: an exception of the validation call other than timeout, transport   *)
(* error or authentication rejection does not leave the handler: no entry, *)
(* a form with errors exactly {base: unknown}.  Every failed submit        *)
(* returns a form with exactly one error tag, out of cannot_connect,       *)
(* not_supported, invalid_auth, unknown.                                   *)
C9_OtherExceptionUnknown ==
    \A f \in Flows :
        /\ (Submitted(f) /\ Outcome(f).kind = "raise"
              /\ ~IsInstance(Outcome(f).exc, "TimeoutError")
              /\ ~IsInstance(Outcome(f).exc, "ClientError")
              /\ ~IsInstance(Outcome(f).exc, "InvalidAuth")) =>
                  ErrorForm(result[f], "unknown")
        /\ (Submitted(f) /\ ~IsEntry(result[f])) =>
              /\ IsForm(result[f])
              /\ DOMAIN result[f].errors = {"base"}
              /\ result[f].errors.base \in ErrorTags

(* C9 witness: a ValueError of get_version in the digest step has produced *)
(* the unknown form.                                                       *)
C9_Witness ==
    \E f \in Flows :
        /\ Submitted(f)
        /\ api[f].link_config.auth.type = "UserAuth"
        /\ Outcome(f) = Raise("ValueError")
        /\ ErrorForm(result[f], "unknown")

(* C10: after a failed submit, from either credential step, the form       *)
(* returned is the auth-choice form (its step and its schema) carrying     *)
(* only the error tag, the flow awaits the auth choice, and nothing of the *)
(* submitted fields is kept: the handler's locals are gone and the form    *)
(* has no other content.                                                   *)
C10_FailureDiscardsFields ==
    \A f \in Flows :
        (Submitted(f) /\ ~IsEntry(result[f])) =>
            /\ \E tag \in ErrorTags :
                  result[f] = async_show_form(USER_STEP, USER_STEP_SCHEMA, [base |-> tag])
            /\ DOMAIN result[f] = {"type", "step_id", "data_schema", "errors"}
            /\ frame[f] = None
            /\ cur_step[f] = USER_STEP
            /\ pc[f] = "idle"

(* C10 witness: both flows failed, one from each credential step, and both *)
(* are back at the auth choice.                                            *)
C10_Witness ==
    \E f, g \in Flows :
        /\ Submitted(f) /\ Submitted(g)
        /\ api[f].link_config.auth.type = "UserAuth"
        /\ api[g].link_config.auth.type = "ApiKeyAuth"
        /\ \A h \in {f, g} :
              /\ Outcome(h).kind = "raise"
              /\ IsForm(result[h])
              /\ cur_step[h] = USER_STEP

(* The variant of an auth record: the user/password variant (which the     *)
(* client library tags "UserAuth") is the DigestAuth of the design, the    *)
(* API-key variant is ApiKeyAuth; any other shape is no variant.           *)
AuthVariant(auth) ==
    IF DOMAIN auth = {"type", "user", "password"} /\ auth.type = "UserAuth"
    THEN "DigestAuth"
    ELSE IF DOMAIN auth = {"type", "apiKey"} /\ auth.type = "ApiKeyAuth"
    THEN "ApiKeyAuth"
    ELSE "none"

(* C11: the auth variant of the configuration passed to the device client  *)
(* matches the step the data came through.  While a submit awaits the      *)
(* client, the client's configuration is the DigestAuth variant with       *)
(* exactly the submitted user and password if the submit came through the  *)
(* digest step, and the ApiKeyAuth variant with exactly the submitted key  *)
(* if it came through the API-key step; a configuration passed to the      *)
(* client is never empty and never a mix of the two.                       *)
C11_AuthVariantMatchesStep ==
    \A f \in Flows :
        api[f] # None =>
            /\ api[f].link_config # None
            /\ DOMAIN api[f].link_config = {"host", "auth"}
            /\ AuthVariant(api[f].link_config.auth) \in {"DigestAuth", "ApiKeyAuth"}
            /\ (pc[f] = "get_version" /\ frame[f].step = DIGEST_AUTH_STEP) =>
                  /\ AuthVariant(api[f].link_config.auth) = "DigestAuth"
                  /\ api[f].link_config.auth.user = frame[f].user_input[USER]
                  /\ api[f].link_config.auth.password = frame[f].user_input[PASSWORD]
            /\ (pc[f] = "get_version" /\ frame[f].step = API_KEY_AUTH_STEP) =>
                  /\ AuthVariant(api[f].link_config.auth) = "ApiKeyAuth"
                  /\ api[f].link_config.auth.apiKey = frame[f].user_input[API_KEY]

(* C11 witness: two submits await the client, one from each step.          *)
C11_Witness ==
    \E f, g \in Flows :
        /\ pc[f] = "get_version" /\ frame[f].step = DIGEST_AUTH_STEP
        /\ pc[g] = "get_version" /\ frame[g].step = API_KEY_AUTH_STEP
        /\ AuthVariant(api[f].link_config.auth) = "DigestAuth"
        /\ AuthVariant(api[g].link_config.auth) = "ApiKeyAuth"

(* C12: every host in a configuration passed to the device client starts   *)
(* with "http://" or "https://" and does not end with "/", whatever raw    *)
(* host was submitted, through either credential step.                     *)
C12_SentHostIsNormalized ==
    \A f \in Flows :
        api[f] # None =>
            /\ HasScheme(api[f].link_config.host)
            /\ ~endswith(api[f].link_config.host, "/")

(* C13: start() returns the auth-choice form without errors, calls no      *)
(* client and creates no entry; chooseAuthType(choice) returns, without    *)
(* errors and without a client call, the credential form of the choice:    *)
(* the digest form (host, user, password) for DigestAuth, the API-key form *)
(* (host, apiKey) for ApiKeyAuth.                                          *)
C13_StartAndChooseShowForms ==
    [][\A f \in Flows :
          /\ Start(f) =>
                /\ result'[f] = async_show_form(USER_STEP, USER_STEP_SCHEMA, None)
                /\ api'[f] = None
                /\ pc'[f] = "idle"
                /\ cur_step'[f] = USER_STEP
          /\ ChooseAuthType(f, DIGEST_AUTH) =>
                /\ IsForm(result'[f])
                /\ result'[f].step_id = DIGEST_AUTH_STEP
                /\ result'[f].errors = None
                /\ {HOST, USER, PASSWORD} \subseteq result'[f].data_schema
                /\ API_KEY \notin result'[f].data_schema
                /\ api'[f] = None
                /\ pc'[f] = "idle"
                /\ cur_step'[f] = DIGEST_AUTH_STEP
          /\ ChooseAuthType(f, API_KEY_AUTH) =>
                /\ IsForm(result'[f])
                /\ result'[f].step_id = API_KEY_AUTH_STEP
                /\ result'[f].errors = None
                /\ {HOST, API_KEY} \subseteq result'[f].data_schema
                /\ {USER, PASSWORD} \cap result'[f].data_schema = {}
                /\ api'[f] = None
                /\ pc'[f] = "idle"
                /\ cur_step'[f] = API_KEY_AUTH_STEP]_vars

(* C13 witness: one flow shows the digest form, the other the API-key      *)
(* form, neither with errors nor with a client.                            *)
C13_Witness ==
    \E f, g \in Flows :
        /\ result[f] = async_step_digest_auth_form
        /\ result[g] = async_step_api_key_auth_form
        /\ api[f] = None /\ api[g] = None
        /\ cur_step[f] = DIGEST_AUTH_STEP /\ cur_step[g] = API_KEY_AUTH_STEP

(* C14: no retries.  Every submit makes exactly one get_version call,      *)
(* whatever its outcome; a flow has a call in flight exactly while its one *)
(* client has no outcome yet; after a failure the flow is idle at the auth *)
(* choice, and a call only ever starts as part of a credential submit.     *)
C14_NoRetries ==
    /\ [](\A f \in Flows :
            /\ api[f] # None => api[f].n_calls = 1
            /\ pc[f] = "get_version" <=>
                  (api[f] # None /\ api[f].get_version.kind = "pending")
            /\ (Submitted(f) /\ ~IsEntry(result[f])) =>
                  /\ pc[f] = "idle"
                  /\ cur_step[f] = USER_STEP)
    /\ [][\A f \in Flows :
            (pc[f] = "idle" /\ pc'[f] = "get_version") =>
                \/ \E user_input \in DigestInputs : SubmitDigest(f, user_input)
                \/ \E user_input \in ApiKeyInputs : SubmitApiKey(f, user_input)]_vars

(* C14 witness: a submit has failed by timeout after its one call, and the *)
(* flow is idle at the auth choice.                                        *)
C14_Witness ==
    \E f \in Flows :
        /\ Submitted(f)
        /\ Outcome(f) = Raise("TimeoutError")
        /\ api[f].n_calls = 1
        /\ pc[f] = "idle"
        /\ cur_step[f] = USER_STEP

(* C15: every submit finishes.  A flow that awaits get_version eventually  *)
(* is idle again with either the entry created (Complete) or the           *)
(* auth-choice form carrying an error tag, because the timer bounds the    *)
(* wait.                                                                   *)
C15_SubmitFinishes ==
    \A f \in Flows :
        (pc[f] = "get_version") ~>
            (/\ pc[f] = "idle"
             /\ \/ IsEntry(result[f]) /\ cur_step[f] = "done"
                \/ /\ cur_step[f] = USER_STEP
                   /\ \E tag \in ErrorTags : ErrorForm(result[f], tag))

(* C15 witness: one submit has ended in Complete and another, ended by a   *)
(* TimeoutError, is back at the auth choice with cannot_connect.           *)
C15_Witness ==
    \E f, g \in Flows :
        /\ Submitted(f) /\ IsEntry(result[f]) /\ cur_step[f] = "done"
        /\ Submitted(g) /\ Outcome(g) = Raise("TimeoutError")
        /\ ErrorForm(result[g], "cannot_connect") /\ cur_step[g] = USER_STEP

(* Everything a flow owns.                                                 *)
FlowState(f) == <<cur_step[f], pc[f], frame[f], result[f], api[f]>>

(* What a session running alone returns for a submit, given only the       *)
(* configuration it sent and the outcome of its own get_version call.      *)
LoneResult(a) ==
    LET vres == validate_input_resume(a.get_version)
        auth == a.link_config.auth
    IN  IF AuthVariant(auth) = "DigestAuth"
        THEN digest_auth_finish(
                 [host |-> a.link_config.host, user |-> auth.user,
                  password |-> auth.password], vres)
        ELSE api_key_auth_finish(
                 [host |-> a.link_config.host, apiKey |-> auth.apiKey], vres)

(* C16: concurrent sessions are independent.  Under every interleaving, a  *)
(* step changes the state of one session only, and leaves the other        *)
(* session's step, locals, result and client untouched; what a submit      *)
(* returns is what a session alone returns for the same configuration and  *)
(* the same device outcome; and two sessions with the same input, or with  *)
(* the same configuration and outcome, are in the same state.              *)
C16_SessionsIndependent ==
    /\ [][\A f, g \in Flows :
            (f # g /\ FlowState(f)' # FlowState(f)) => FlowState(g)' = FlowState(g)]_vars
    /\ [](\A f \in Flows :
            /\ Submitted(f) =>
                  /\ result[f] = LoneResult(api[f])
                  /\ cur_step[f] = next_cur_step(LoneResult(api[f]))
            /\ \A g \in Flows :
                  /\ (Submitted(f) /\ Submitted(g) /\ api[f] = api[g]) =>
                        FlowState(f) = FlowState(g)
                  /\ (pc[f] = "get_version" /\ pc[g] = "get_version"
                        /\ frame[f].step = frame[g].step
                        /\ frame[f].user_input = frame[g].user_input) =>
                        FlowState(f) = FlowState(g))

(* C16 witness: both sessions have finished a submit, with different       *)
(* inputs and different outcomes, one with an entry and one with an error. *)
C16_Witness ==
    \E f, g \in Flows :
        /\ Submitted(f) /\ Submitted(g)
        /\ api[f].link_config # api[g].link_config
        /\ IsEntry(result[f])
        /\ \E tag \in ErrorTags : ErrorForm(result[g], tag)

(* C17: Complete is terminal and reached at most once.  A flow whose       *)
(* result is an entry creation is Complete and idle, and from then on      *)
(* nothing of it changes: no further form, no further client call, no      *)
(* second entry.                                                           *)
C17_CompleteIsTerminal ==
    /\ [](\A f \in Flows :
            IsEntry(result[f]) => (cur_step[f] = "done" /\ pc[f] = "idle"))
    /\ [][\A f \in Flows :
            cur_step[f] = "done" => FlowState(f)' = FlowState(f)]_vars

(* C17 witness: one flow is Complete while the other one is still taking   *)
(* steps (it awaits its client).                                           *)
C17_Witness ==
    \E f, g \in Flows :
        /\ cur_step[f] = "done" /\ IsEntry(result[f])
        /\ pc[g] = "get_version"

(* C18: host normalization is idempotent: get_host(get_host(r)) equals     *)
(* get_host(r) for every raw host r, the empty string, slashes only and a  *)
(* scheme only included.                                                   *)
C18_GetHostIdempotent ==
    calls = 2 => host = get_host(raw)

(* C19: the host and the credentials persisted in a created entry are      *)
(* exactly those of the configuration sent to the device client in the     *)
(* validation call of the same submit, and nothing else is persisted.      *)
C19_EntryMatchesValidatedConfig ==
    \A f \in Flows :
        (Submitted(f) /\ IsEntry(result[f])) =>
            LET data == result[f].data
                cfg == api[f].link_config
            IN  /\ data[HOST] = cfg.host
                /\ AuthVariant(cfg.auth) = "DigestAuth" =>
                      /\ DOMAIN data = {HOST, USER, PASSWORD}
                      /\ data[USER] = cfg.auth.user
                      /\ data[PASSWORD] = cfg.auth.password
                /\ AuthVariant(cfg.auth) = "ApiKeyAuth" =>
                      /\ DOMAIN data = {HOST, API_KEY}
                      /\ data[API_KEY] = cfg.auth.apiKey

(* C19 witness: entries created through both steps, the digest one for a   *)
(* host that was normalized before it was sent.                            *)
C19_Witness ==
    \E f, g \in Flows :
        /\ Submitted(f) /\ IsEntry(result[f])
        /\ Submitted(g) /\ IsEntry(result[g])
        /\ AuthVariant(api[f].link_config.auth) = "DigestAuth"
        /\ AuthVariant(api[g].link_config.auth) = "ApiKeyAuth"
        /\ result[f].data[HOST] = HTTP \o MYPRINTER
        /\ result[f].data[PASSWORD] = "pw2"

(* C20: a failure never wedges the wizard.  In the runs that start after a *)
(* failed submit (SpecRetry), and whatever further failures follow: a      *)
(* flow whose submit failed awaits the auth choice, idle, and both auth    *)
(* types can be chosen; a flow that awaits credentials shows the plain     *)
(* credential form and holds nothing of the failures (no error tag, no     *)
(* client, no locals), and can submit; and a submit whose validation       *)
(* returns creates the entry, titled with the reported hostname, exactly   *)
(* as a session that never failed would.                                   *)
C20_FailureNeverWedges ==
    \A f \in Flows :
        /\ (Submitted(f) /\ ~IsEntry(result[f])) =>
              /\ cur_step[f] = USER_STEP
              /\ pc[f] = "idle"
              /\ ENABLED ChooseAuthType(f, DIGEST_AUTH)
              /\ ENABLED ChooseAuthType(f, API_KEY_AUTH)
        /\ (cur_step[f] = DIGEST_AUTH_STEP /\ pc[f] = "idle") =>
              /\ result[f] = async_show_form(DIGEST_AUTH_STEP, DIGEST_AUTH_SCHEMA, None)
              /\ api[f] = None /\ frame[f] = None
              /\ \A user_input \in DigestInputs : ENABLED SubmitDigest(f, user_input)
        /\ (cur_step[f] = API_KEY_AUTH_STEP /\ pc[f] = "idle") =>
              /\ result[f] = async_show_form(API_KEY_AUTH_STEP, API_KEY_AUTH_SCHEMA, None)
              /\ api[f] = None /\ frame[f] = None
              /\ \A user_input \in ApiKeyInputs : ENABLED SubmitApiKey(f, user_input)
        /\ (Submitted(f) /\ Outcome(f).kind = "return") =>
              /\ IsEntry(result[f])
              /\ result[f].title = Outcome(f).value.hostname
              /\ result[f] = LoneResult(api[f])
              /\ cur_step[f] = "done"

(* C20 witness: after its failure one flow has created its entry through   *)
(* the digest step, while the other, rejected in the API-key step, awaits  *)
(* the auth choice.                                                        *)
C20_Witness ==
    \E f, g \in Flows :
        /\ Submitted(f) /\ IsEntry(result[f])
        /\ AuthVariant(api[f].link_config.auth) = "DigestAuth"
        /\ Submitted(g) /\ ErrorForm(result[g], "invalid_auth")
        /\ AuthVariant(api[g].link_config.auth) = "ApiKeyAuth"
        /\ cur_step[g] = USER_STEP

====
